---- MODULE Spec2Model ----
(***************************************************************************)
(* State-machine model of wdd_bridge/bridge.py: the Bridge main loop       *)
(* (run), its shutdown (stop), the render tick (run_ui) and the per-camera *)
(* binding HiveSide.process.                                               *)
(*                                                                         *)
(* The loop thread ("main") executes run(); a second control flow ("ext")  *)
(* issues external stop requests.  Bridge.stop is modelled statement by    *)
(* statement so that both the sequential composition of stop calls (Spec)  *)
(* and their arbitrary interleaving (SpecConc) can be explored.            *)
(***************************************************************************)
EXTENDS Integers, Sequences, FiniteSets, TLC

(* ------------------------------ bounds --------------------------------- *)
\* number of events the DanceSource delivers before it only times out
MaxEvents == 2
\* largest number of observations the clusterer yields for one event
MaxObs == 2
\* number of external stop requests issued
MaxStopRequests == 2
\* largest actuator count a camera's mapper reports; the smallest is one less
MaxActuators == 3
\* consecutive timed-out receives that are counted exactly
MaxIdle == 3
\* world angles range over MaxTurns full turns on either side of zero
MaxTurns == 2
\* largest display height, in rows
MaxHeight == 12
\* largest number of lines in self.log when the panel is drawn
MaxLog == 4
\* largest number of configured cameras the dance markers are drawn for
MaxSides == 3
\* largest number of open dance positions of one camera
MaxDances == 2

(* --------------------------- configuration ----------------------------- *)
\* config["cameras"], in file order (dict insertion order of self.cameras)
Cameras == <<1, 2>>
CamSet == {Cameras[i] : i \in 1..Len(Cameras)}
\* cam ids an event of the DanceSource may carry; 3 is not configured
EventCamIds == CamSet \cup {3}

Threads == {"main", "ext"}
NoEvent == [id |-> 0, cam |-> 0, n |-> 0]
NoAngle == 1000
NoMap == [world_angle |-> NoAngle, idx |-> 0]
NoLines == [n |-> 0, last |-> [kind |-> "", dir |-> "", cam |-> 0]]

\* angles are multiples of 360/Circle degrees (11.25 degrees)
Circle == 32
WorldAngles == {0, -1}

VARIABLES
    running,      \* self.running
    screen,       \* self.screen: "none" (None), "open", "closed"
    hasStats,     \* self.statistics is not None
    mapperCount,  \* comb_mapper.get_actuator_count() of every camera
    combCount,    \* actuator_count the CombConnector was constructed with
    log,          \* self.log, every line by its kind
    pc,           \* position of the loop thread in run()
    exc,          \* an exception is propagating out of run()
    sp,           \* position of every thread inside stop()
    closeCount,   \* close() calls made on wdd, comb, statistics, screen
    camClose,     \* close() calls made on every HiveSide
    closeFailed,  \* some close() has raised
    cur,          \* waggle_info of the current iteration
    nrecv,        \* events the DanceSource has delivered
    handed,       \* calls of HiveSide.process made for cur: the binding used
    emitted,      \* commands yielded by HiveSide.process for cur
    mapped,       \* world_angle and idx of the generator: the last result
                  \* of map_to_comb
    curLog,       \* the lines HiveSide.process printed for cur: their number
                  \* and the text of the last one
    gen,          \* state of the generator HiveSide.process returned
    msg,          \* the message the for loop of run() holds
    sent,         \* commands passed to comb.send_message for cur
    stopCalls,    \* calls of stop() made so far: 0, 1, or 2 for more
    extCalls,     \* external stop requests made so far
    key,          \* ev: the keystroke the latest render tick polled
    frame,        \* what the latest render tick left on the screen
    ticks,        \* render ticks since the last event was received
    timeouts,     \* receives that timed out since the last event
    lateRecv,     \* receives made while running was already false
    fn            \* the call under study of a function taken on its own:
                  \* its arguments, its position and its results

vars == <<running, screen, hasStats, mapperCount, combCount, log, pc, exc, sp,
          closeCount, camClose, closeFailed, cur, nrecv, handed, emitted,
          mapped, curLog, gen, msg, sent, stopCalls, extCalls, key, frame,
          ticks, timeouts, lateRecv, fn>>

\* everything but fn
bridgeVars == <<running, screen, hasStats, mapperCount, combCount, log, pc,
                exc, sp, closeCount, camClose, closeFailed, cur, nrecv,
                handed, emitted, mapped, curLog, gen, msg, sent, stopCalls,
                extCalls, key, frame, ticks, timeouts, lateRecv>>

loopVars == <<log, cur, nrecv, handed, emitted, mapped, curLog, gen, msg, sent>>
cfgVars == <<hasStats, mapperCount, combCount>>
fixedVars == <<cfgVars, fn>>
closeVars == <<closeCount, camClose, closeFailed>>
uiVars == <<key, frame, ticks>>
recvVars == <<timeouts, lateRecv>>
tickVars == <<uiVars, recvVars>>

(* ----------------------------- HiveSide -------------------------------- *)
world_directions ==
    << "E", "NEE", "NE", "NNE", "N", "NNW", "NW", "NWW",
       "W", "SWW", "SW", "SSW", "S", "SSE", "SE", "SEE" >>

\* line 42: angle = (2.0 * np.pi + world_angle) % (2.0 * np.pi)
NormAngle(w) == (Circle + w) % Circle

\* line 43: int((angle / np.pi * 180.0) / (360.0 / len(world_directions)))
DirectionIndexRound(w) ==
    ((NormAngle(w) * Len(world_directions) + Circle \div 2) \div Circle)
       % Len(world_directions)
DirectionIndex(w) == (NormAngle(w) * Len(world_directions)) \div Circle

WorldDirection(w) == world_directions[DirectionIndex(w) + 1]

\* line 48: CombTriggerActuatorMessage(idx, signal_index=1, side=1)
CombTriggerActuatorMessage(idx) ==
    [actuator_index |-> idx, signal_index |-> 1, side |-> 1]

\* lines 45-46: the line handed to print_fn
VibratingLine(w, cam) ==
    [kind |-> "vibrating", dir |-> WorldDirection(w), cam |-> cam]

\* line 148
InvalidCameraLine == [kind |-> "invalid", dir |-> "", cam |-> 0]

\* the actuator indices a mapper with count actuators is driven to return
MapperIndices(count) == {0, count - 1}

\* map_to_comb: the (waggle_angle, world_angle) component is absent when no
\* angle is passed
MapHasAngles(a) == a # NoAngle

\* line 32: the for loop over the clusterer's observations goes on
MoreObservationsShort(n, k) == k + 1 < n
MoreObservations(n, k) == k < n

(* ------------------------------ Bridge --------------------------------- *)
\* line 109: next(iter(self.cameras.values())).comb_mapper.get_actuator_count()
FirstCameraCountLess(mc) == mc[Cameras[1]] - 1
FirstCameraCount(mc) == mc[Cameras[1]]

\* line 149: self.cameras[waggle_cam_id]
BindingFirst(cam) == Cameras[1]
Binding(cam) == cam

\* line 117: if self.running
StopGuardAlways(r) == TRUE
StopGuard(r) == r

\* line 166: ev in (ord("Q"), ord("q"))
Keys == {"q", "Q", "other"}
QuitKeyLower(k) == k = "q"
QuitKeyAny(k) == TRUE
QuitKey(k) == k \in {"q", "Q"}

\* line 135-136: the loop body starts with the render tick
WhileTargetNoTick(r) == IF r THEN "recv" ELSE "finally"
WhileTarget(r) == IF r THEN "ui" ELSE "finally"

\* the counters of an idle streak are exact up to MaxIdle
CountIdle(n) == IF n <= MaxIdle THEN n + 1 ELSE n

\* one more call of stop() is made
CountCall(calls) == IF calls < 2 THEN calls + 1 ELSE 2

InitCommon ==
    /\ running = TRUE
    /\ screen = "none"
    /\ hasStats \in BOOLEAN
    /\ mapperCount \in [CamSet -> (MaxActuators - 1)..MaxActuators]
    /\ combCount = FirstCameraCount(mapperCount)
    /\ log = <<>>
    /\ pc = "start"
    /\ exc = FALSE
    /\ sp = [t \in Threads |-> "idle"]
    /\ closeCount = [r \in {"wdd", "comb", "stats", "screen"} |-> 0]
    /\ camClose = [c \in CamSet |-> 0]
    /\ closeFailed = FALSE
    /\ cur = NoEvent
    /\ nrecv = 0
    /\ handed = <<>>
    /\ emitted = <<>>
    /\ mapped = NoMap
    /\ curLog = NoLines
    /\ gen = "none"
    /\ msg = 0
    /\ sent = <<>>
    /\ stopCalls = 0
    /\ extCalls = 0
    /\ key = "none"
    /\ frame = "blank"
    /\ ticks = 0
    /\ timeouts = 0
    /\ lateRecv = 0

\* no function is taken on its own
NoCall == [op |-> "none"]

Init == InitCommon /\ fn = NoCall

\* an exception raised inside the try block of run() reaches the finally
Raise ==
    /\ pc' = "finally"
    /\ exc' = TRUE

\* line 133
Start ==
    /\ pc = "start"
    /\ pc' = "while"
    /\ UNCHANGED <<running, screen, fixedVars, tickVars, loopVars, exc, sp,
                   closeVars,
                   stopCalls, extCalls>>

\* line 135: while self.running
WhileCheck ==
    /\ pc = "while"
    /\ pc' = WhileTarget(running)
    /\ UNCHANGED <<running, screen, fixedVars, tickVars, loopVars, exc, sp,
                   closeVars,
                   stopCalls, extCalls>>

\* lines 247-248: open the screen on the first render tick
UiOpen ==
    /\ pc = "ui"
    /\ IF screen = "none"
          THEN \E ok \in BOOLEAN :
                 IF ok THEN /\ screen' = "open"
                            /\ pc' = "key"
                            /\ UNCHANGED exc
                       ELSE /\ Raise
                            /\ UNCHANGED screen
          ELSE /\ pc' = "key"
               /\ UNCHANGED <<screen, exc>>
    /\ UNCHANGED <<running, fixedVars, tickVars, loopVars, sp, closeVars,
                   stopCalls,
                   extCalls>>

\* lines 163-245: clear the buffer and poll one key; the quit key calls
\* stop() and returns, any other key draws and flushes the frame, which
\* may fail
UiKey ==
    /\ pc = "key"
    /\ ticks' = CountIdle(ticks)
    /\ \E k \in Keys :
         /\ key' = k
         /\ IF QuitKey(k)
               THEN /\ frame' = "cleared"
                    /\ pc' = "ui_stop"
                    /\ sp' = [sp EXCEPT !["main"] = "check"]
                    /\ stopCalls' = CountCall(stopCalls)
                    /\ UNCHANGED exc
               ELSE /\ \E ok \in BOOLEAN :
                         IF ok THEN /\ frame' = "drawn"
                                    /\ pc' = "recv"
                                    /\ UNCHANGED exc
                               ELSE /\ frame' = "partial"
                                    /\ Raise
                    /\ UNCHANGED <<sp, stopCalls>>
    /\ UNCHANGED <<running, screen, fixedVars, recvVars, loopVars, closeVars,
                   extCalls>>

\* line 138: waggle_info = self.wdd.get_message(block=True, timeout=1.0)
Receive ==
    /\ pc = "recv"
    /\ lateRecv' = IF running THEN lateRecv ELSE CountCall(lateRecv)
    /\ \/ /\ \/ /\ cur' = NoEvent
                /\ timeouts' = CountIdle(timeouts)
                /\ UNCHANGED <<nrecv, ticks>>
             \/ /\ nrecv < MaxEvents
                /\ \E c \in EventCamIds, n \in 0..MaxObs :
                      cur' = [id |-> nrecv + 1, cam |-> c, n |-> n]
                /\ nrecv' = nrecv + 1
                /\ timeouts' = 0
                /\ ticks' = 0
          /\ pc' = "chk"
          /\ handed' = <<>>
          /\ emitted' = <<>>
          /\ mapped' = NoMap
          /\ curLog' = NoLines
          /\ sent' = <<>>
          /\ gen' = "none"
          /\ msg' = 0
          /\ UNCHANGED exc
       \/ /\ Raise
          /\ UNCHANGED <<cur, nrecv, handed, emitted, mapped, curLog, sent,
                         gen, msg, timeouts, ticks>>
    /\ UNCHANGED <<running, screen, fixedVars, key, frame, log, sp, closeVars,
                   stopCalls, extCalls>>

\* lines 140-142
CheckAfterReceive ==
    /\ pc = "chk"
    /\ IF ~running
          THEN /\ pc' = "chk_stop"
               /\ sp' = [sp EXCEPT !["main"] = "check"]
               /\ stopCalls' = CountCall(stopCalls)
          ELSE /\ pc' = "route"
               /\ UNCHANGED <<sp, stopCalls>>
    /\ UNCHANGED <<running, screen, fixedVars, tickVars, loopVars, exc,
                   closeVars,
                   extCalls>>

\* lines 144-149
Route ==
    /\ pc = "route"
    /\ IF cur = NoEvent
          THEN /\ pc' = "while"
               /\ UNCHANGED <<log, handed, gen, exc>>
          ELSE IF cur.cam \notin CamSet
                  THEN \* line 148 prints, line 149 raises KeyError
                       /\ log' = Append(log, InvalidCameraLine.kind)
                       /\ Raise
                       /\ UNCHANGED <<handed, gen>>
                  ELSE /\ handed' = Append(handed, Binding(cur.cam))
                       /\ gen' = "active"
                       /\ pc' = "gen"
                       /\ UNCHANGED <<log, exc>>
    /\ UNCHANGED <<running, screen, fixedVars, tickVars, cur, nrecv, emitted,
                   mapped,
                   curLog, msg, sent, sp, closeVars, stopCalls, extCalls>>

CurBinding == handed[Len(handed)]

\* lines 151 and 30-48: the for loop of run() advances the generator
Generate ==
    /\ pc = "gen"
    /\ IF MoreObservations(cur.n, Len(emitted))
          THEN \E a \in WorldAngles \cup {NoAngle},
                  idx \in MapperIndices(mapperCount[CurBinding]) :
                 IF MapHasAngles(a)
                    THEN /\ mapped' = [world_angle |-> a, idx |-> idx]
                         /\ log' = Append(log,
                                           VibratingLine(a, CurBinding).kind)
                         /\ curLog' = [n |-> curLog.n + 1,
                                       last |-> VibratingLine(a, CurBinding)]
                         /\ emitted' = Append(emitted,
                                            CombTriggerActuatorMessage(idx))
                         /\ msg' = Len(emitted) + 1
                         /\ pc' = "send"
                         /\ UNCHANGED <<gen, exc>>
                    ELSE \* lines 34/42 fail on the absent angles
                         /\ gen' = "raised"
                         /\ Raise
                         /\ UNCHANGED <<log, curLog, emitted, mapped, msg>>
          ELSE /\ gen' = "exhausted"
               /\ pc' = "while"
               /\ UNCHANGED <<log, curLog, emitted, mapped, msg, exc>>
    /\ UNCHANGED <<running, screen, fixedVars, tickVars, cur, nrecv, handed,
                   sent, sp,
                   closeVars, stopCalls, extCalls>>

\* line 152: self.comb.send_message(message)
Send ==
    /\ pc = "send"
    /\ \E ok \in BOOLEAN :
         IF ok THEN /\ sent' = Append(sent, emitted[msg])
                    /\ pc' = "gen"
                    /\ UNCHANGED exc
               ELSE /\ Raise
                    /\ UNCHANGED sent
    /\ UNCHANGED <<running, screen, fixedVars, tickVars, log, cur, nrecv,
                   handed, emitted,
                   mapped, curLog, gen, msg, sp, closeVars, stopCalls,
                   extCalls>>

\* line 155: finally: self.stop()
Finally ==
    /\ pc = "finally"
    /\ pc' = "finally_stop"
    /\ sp' = [sp EXCEPT !["main"] = "check"]
    /\ stopCalls' = CountCall(stopCalls)
    /\ UNCHANGED <<running, screen, fixedVars, tickVars, loopVars, exc,
                   closeVars,
                   extCalls>>

\* an external stop request: a call of Bridge.stop from outside the loop
ExtStopRequest ==
    /\ sp["ext"] = "idle"
    /\ extCalls < MaxStopRequests
    /\ extCalls' = extCalls + 1
    /\ stopCalls' = CountCall(stopCalls)
    /\ sp' = [sp EXCEPT !["ext"] = "check"]
    /\ UNCHANGED <<running, screen, fixedVars, tickVars, loopVars, pc, exc,
                   closeVars>>

(* ---------------------------- Bridge.stop ------------------------------ *)
\* where run() goes on when its call of stop() returns or raises
AfterStop(site, failed) ==
    CASE site = "ui_stop"      -> IF failed THEN "finally" ELSE "recv"
      [] site = "chk_stop"     -> "finally"
      [] site = "finally_stop" -> "done"

\* thread t leaves stop(), by return or by the exception of a failed close
Leave(t, failed) ==
    /\ sp' = [sp EXCEPT ![t] = "idle"]
    /\ closeFailed' = (closeFailed \/ failed)
    /\ IF t = "main"
          THEN /\ pc' = AfterStop(pc, failed)
               /\ exc' = (exc \/ failed)
          ELSE UNCHANGED <<pc, exc>>

Goto(t, next) ==
    /\ sp' = [sp EXCEPT ![t] = next]
    /\ UNCHANGED <<pc, exc, closeFailed>>

\* line 117
StopCheck(t) ==
    /\ sp[t] = "check"
    /\ IF StopGuard(running) THEN Goto(t, "set") ELSE Leave(t, FALSE)
    /\ UNCHANGED <<running, screen, fixedVars, tickVars, loopVars, closeCount,
                   camClose, stopCalls,
                   extCalls>>

\* lines 118-119
StopSet(t) ==
    /\ sp[t] = "set"
    /\ running' = FALSE
    /\ Goto(t, "wdd")
    /\ UNCHANGED <<screen, fixedVars, tickVars, loopVars, closeCount, camClose,
                   stopCalls, extCalls>>

\* line 120: self.wdd.close()
StopWdd(t) ==
    /\ sp[t] = "wdd"
    /\ closeCount' = [closeCount EXCEPT !["wdd"] = @ + 1]
    /\ \E ok \in BOOLEAN : IF ok THEN Goto(t, "comb") ELSE Leave(t, TRUE)
    /\ UNCHANGED <<running, screen, fixedVars, tickVars, loopVars, camClose,
                   stopCalls,
                   extCalls>>

\* line 121: self.comb.close()
StopComb(t) ==
    /\ sp[t] = "comb"
    /\ closeCount' = [closeCount EXCEPT !["comb"] = @ + 1]
    /\ \E ok \in BOOLEAN : IF ok THEN Goto(t, "cams") ELSE Leave(t, TRUE)
    /\ UNCHANGED <<running, screen, fixedVars, tickVars, loopVars, camClose,
                   stopCalls,
                   extCalls>>

\* lines 122-123 with HiveSide.close (lines 26-27), which does nothing
StopCams(t) ==
    /\ sp[t] = "cams"
    /\ camClose' = [c \in CamSet |-> camClose[c] + 1]
    /\ Goto(t, "stats")
    /\ UNCHANGED <<running, screen, fixedVars, tickVars, loopVars, closeCount,
                   stopCalls,
                   extCalls>>

\* lines 125-126
StopStats(t) ==
    /\ sp[t] = "stats"
    /\ IF hasStats
          THEN /\ closeCount' = [closeCount EXCEPT !["stats"] = @ + 1]
               /\ \E ok \in BOOLEAN :
                    IF ok THEN Goto(t, "screen") ELSE Leave(t, TRUE)
          ELSE /\ Goto(t, "screen")
               /\ UNCHANGED closeCount
    /\ UNCHANGED <<running, screen, fixedVars, tickVars, loopVars, camClose,
                   stopCalls,
                   extCalls>>

\* lines 128-129
StopScreen(t) ==
    /\ sp[t] = "screen"
    /\ IF screen # "none"
          THEN /\ closeCount' = [closeCount EXCEPT !["screen"] = @ + 1]
               /\ \E ok \in BOOLEAN :
                    /\ screen' = IF ok THEN "closed" ELSE screen
                    /\ Leave(t, ~ok)
          ELSE /\ Leave(t, FALSE)
               /\ UNCHANGED <<closeCount, screen>>
    /\ UNCHANGED <<running, fixedVars, tickVars, loopVars, camClose, stopCalls,
                   extCalls>>

(* --------------------------- specifications ---------------------------- *)
LoopStep ==
    \/ Start
    \/ WhileCheck
    \/ UiOpen
    \/ UiKey
    \/ Receive
    \/ CheckAfterReceive
    \/ Route
    \/ Generate
    \/ Send
    \/ Finally

StopStep(t) ==
    \/ StopCheck(t)
    \/ StopSet(t)
    \/ StopWdd(t)
    \/ StopComb(t)
    \/ StopCams(t)
    \/ StopStats(t)
    \/ StopScreen(t)

\* Single-threaded cooperative execution: a stop request is served between
\* two statements of the loop thread, and no two calls of stop() overlap.
Next ==
    \/ sp["ext"] = "idle" /\ sp["main"] = "idle" /\ LoopStep
    \/ sp["ext"] = "idle" /\ StopStep("main")
    \/ sp["main"] = "idle" /\ ExtStopRequest
    \/ StopStep("ext")

Spec == Init /\ [][Next]_vars

\* Stop requests arriving from another thread or a signal handler: every
\* statement of an external stop() may interleave with the loop thread.
NextConc ==
    \/ sp["main"] = "idle" /\ LoopStep
    \/ StopStep("main")
    \/ ExtStopRequest
    \/ StopStep("ext")

SpecConc == Init /\ [][NextConc]_vars

(* ------------------- HiveSide.process: the direction ------------------- *)
NoIndex == -1

\* the world angles map_to_comb may return, negative ones included
AngleInputs == (0 - MaxTurns * Circle)..(MaxTurns * Circle - 1)

InitDirection ==
    /\ InitCommon
    /\ \E w \in AngleInputs :
         fn = [op |-> "direction", world_angle |-> w, idx |-> NoIndex,
               world_direction |-> ""]

\* lines 42-43: normalise the angle and look the label up
Classify ==
    /\ fn.op = "direction"
    /\ fn.idx = NoIndex
    /\ fn' = [fn EXCEPT !.idx = DirectionIndex(fn.world_angle),
                        !.world_direction =
                           IF DirectionIndex(fn.world_angle) + 1
                                 \in DOMAIN world_directions
                              THEN WorldDirection(fn.world_angle)
                              ELSE "IndexError"]
    /\ UNCHANGED bridgeVars

NextDirection == Classify

SpecDirection == InitDirection /\ [][NextDirection]_vars

(* --------------------- run_ui: the bottom log panel -------------------- *)
\* screen.width
Widths == {10, 20}
\* (hwidth, hheight) of get_comb_rectangle()
CombRects == {<<4, 1>>, <<2, 1>>, <<1, 1>>}

Min(a, b) == IF a < b THEN a ELSE b

\* line 176: cleft, cright = int(screen.width * 0.1), int(screen.width * 0.9)
Cleft(width) == width \div 10
Cright(width) == (width * 9) \div 10

\* line 178: cbottom = int(cwidth * (hheight / hwidth))
Cbottom(width, rect) == ((Cright(width) - Cleft(width)) * rect[2]) \div rect[1]

\* line 234: space = screen.height - cbottom
Space(height, cbottom) == height - cbottom

\* line 236: self.log[-space:], for space > 0
LogTail(lg, space) ==
    IF Len(lg) <= space THEN lg ELSE SubSeq(lg, Len(lg) - space + 1, Len(lg))

\* line 241: the row of the i-th line of the panel
PanelRow(cbottom, i) == cbottom + 2 + i

\* the log holds its lines in the order they were appended: 1, 2, ...
InitPanel ==
    /\ InitCommon
    /\ \E h \in 1..MaxHeight, w \in Widths, r \in CombRects, n \in 0..MaxLog :
         fn = [op |-> "panel", height |-> h, width |-> w, rect |-> r,
               log |-> [j \in 1..n |-> j], at |-> "geometry", cbottom |-> 0,
               tail |-> <<>>, i |-> 0, printed |-> <<>>]

\* lines 173-179 and 234-236
PanelGeometry ==
    /\ fn.op = "panel"
    /\ fn.at = "geometry"
    /\ LET cb == Cbottom(fn.width, fn.rect)
           space == Space(fn.height, cb)
       IN  fn' = [fn EXCEPT !.cbottom = cb,
                            !.tail = IF space > 0 THEN LogTail(fn.log, space)
                                                  ELSE <<>>,
                            !.at = IF space > 0 THEN "print" ELSE "refresh"]
    /\ UNCHANGED bridgeVars

\* lines 237-243: one print_at of the for loop
PanelPrint ==
    /\ fn.op = "panel"
    /\ fn.at = "print"
    /\ fn.i < Min(Len(fn.tail), Space(fn.height, fn.cbottom))
    /\ fn' = [fn EXCEPT !.printed =
                           Append(@, [row |-> PanelRow(fn.cbottom, fn.i),
                                      line |-> fn.tail[fn.i + 1]]),
                        !.i = @ + 1]
    /\ UNCHANGED bridgeVars

\* the for loop is over
PanelEnd ==
    /\ fn.op = "panel"
    /\ fn.at = "print"
    /\ fn.i >= Min(Len(fn.tail), Space(fn.height, fn.cbottom))
    /\ fn' = [fn EXCEPT !.at = "refresh"]
    /\ UNCHANGED bridgeVars

\* line 245: screen.refresh()
PanelRefresh ==
    /\ fn.op = "panel"
    /\ fn.at = "refresh"
    /\ fn' = [fn EXCEPT !.at = "done"]
    /\ UNCHANGED bridgeVars

NextPanel ==
    \/ PanelGeometry
    \/ PanelPrint
    \/ PanelEnd
    \/ PanelRefresh

SpecPanel == InitPanel /\ [][NextPanel]_vars

(* --------------------- run_ui: the dance markers ----------------------- *)
\* lines 201-204
side_colors == <<"COLOUR_YELLOW", "COLOUR_CYAN">>

\* line 217: side_colors[side_index] is defined
InPalette(side_index) == side_index + 1 \in DOMAIN side_colors

\* side_index enumerates self.cameras.values() from 0
InitPalette ==
    /\ InitCommon
    /\ \E n \in 1..MaxSides :
         \E dances \in [0..(n - 1) -> 0..MaxDances] :
            fn = [op |-> "palette", sides |-> n, dances |-> dances,
                  side_index |-> 0, idx |-> 0, color |-> "",
                  IndexError |-> FALSE]

\* lines 207-218: one marker of the camera at side_index
DrawDance ==
    /\ fn.op = "palette"
    /\ ~fn.IndexError
    /\ fn.side_index < fn.sides
    /\ fn.idx < fn.dances[fn.side_index]
    /\ IF InPalette(fn.side_index)
          THEN fn' = [fn EXCEPT !.color = side_colors[fn.side_index + 1],
                                !.idx = @ + 1]
          ELSE fn' = [fn EXCEPT !.IndexError = TRUE]
    /\ UNCHANGED bridgeVars

\* line 205: the next camera
NextSide ==
    /\ fn.op = "palette"
    /\ ~fn.IndexError
    /\ fn.side_index < fn.sides
    /\ fn.idx >= fn.dances[fn.side_index]
    /\ fn' = [fn EXCEPT !.side_index = @ + 1, !.idx = 0]
    /\ UNCHANGED bridgeVars

NextPalette ==
    \/ DrawDance
    \/ NextSide

SpecPalette == InitPalette /\ [][NextPalette]_vars

(* ------------------------------ claims --------------------------------- *)
AllIdle == \A t \in Threads : sp[t] = "idle"

\* the close of every owned resource has been attempted
AllCloseAttempted ==
    /\ closeCount["wdd"] >= 1
    /\ closeCount["comb"] >= 1
    /\ \A c \in CamSet : camClose[c] >= 1
    /\ hasStats => closeCount["stats"] >= 1
    /\ screen # "none" => closeCount["screen"] >= 1

\* no resource has been closed more than once
AtMostOnce ==
    /\ \A r \in DOMAIN closeCount : closeCount[r] <= 1
    /\ \A c \in CamSet : camClose[c] <= 1

UnknownRouted == pc = "route" /\ cur # NoEvent /\ cur.cam \notin CamSet

\* C1: the iteration that routes an event of an unknown camera sends no
\* command, appends exactly one log line, closes nothing, leaves running as
\* it is and goes back to the top of the loop.
C1Claim ==
    [][(UnknownRouted /\ pc' # pc) =>
          /\ sent' = sent
          /\ emitted' = emitted
          /\ Len(log') = Len(log) + 1
          /\ running' = running
          /\ closeCount' = closeCount
          /\ camClose' = camClose
          /\ pc' = "while"]_vars

\* C2: whenever a call of stop() that entered the shutdown sequence ends,
\* by return or by a failed close, the close of every owned resource has
\* been attempted.
C2Claim ==
    [][\A t \in Threads :
          (sp[t] \notin {"idle", "check"} /\ sp'[t] = "idle")
             => AllCloseAttempted']_vars

\* C3: when run() has exited, every owned resource has had its close
\* attempted exactly once.
C3Claim ==
    pc = "done" =>
       /\ closeCount["wdd"] = 1
       /\ closeCount["comb"] = 1
       /\ \A c \in CamSet : camClose[c] = 1
       /\ closeCount["stats"] = (IF hasStats THEN 1 ELSE 0)
       /\ closeCount["screen"] = (IF screen # "none" THEN 1 ELSE 0)

\* C4: a call of stop() made after an earlier call has ended returns from
\* its check of running without changing running or any resource, and no
\* resource is ever closed more than once.
C4Theorem ==
    [][/\ \A t \in Threads :
             (stopCalls >= 2 /\ sp[t] = "check" /\ sp'[t] # "check")
                => /\ sp'[t] = "idle"
                   /\ UNCHANGED <<running, screen, closeCount, camClose>>
       /\ AtMostOnce']_vars

C4Witness ==
    /\ stopCalls >= 2
    /\ AllIdle
    /\ ~running
    /\ closeCount["wdd"] = 1
    /\ closeCount["screen"] = 1

\* the Bridge is Stopped: running is false and no call of stop() is inside
\* the shutdown sequence
Stopped == ~running /\ \A t \in Threads : sp[t] \in {"idle", "check"}

\* C5: running never goes from false to true, and the Bridge is Stopped
\* only after the close of every owned resource has been attempted.
C5Claim ==
    [][/\ running' => running
       /\ Stopped' => AllCloseAttempted']_vars

\* C6 (as stated): every command passed to the link has an actuator index
\* in range of the count the link was constructed with.
C6Claim ==
    \A i \in 1..Len(sent) :
       0 <= sent[i].actuator_index /\ sent[i].actuator_index < combCount

\* C6 (amended): the commands of a camera whose mapper has at most as many
\* actuators as the first camera's are in range of the link's count.
C6Theorem ==
    (Len(handed) > 0 /\ mapperCount[CurBinding] <= mapperCount[Cameras[1]])
       => \A i \in 1..Len(sent) :
             0 <= sent[i].actuator_index /\ sent[i].actuator_index < combCount

C6Witness ==
    /\ Len(sent) = 1
    /\ CurBinding # Cameras[1]
    /\ mapperCount[CurBinding] <= mapperCount[Cameras[1]]
    /\ sent[1].actuator_index = combCount - 1

\* C7: an event is handed at most once, to the binding of its own cam_id;
\* the commands passed to the link are, in order and without repetition,
\* the commands this binding emitted, all of them once the generator is
\* exhausted.
C7Theorem ==
    /\ Len(handed) <= 1
    /\ Len(handed) = 1 => (cur.cam \in CamSet /\ handed[1] = cur.cam)
    /\ Len(handed) = 0 => emitted = <<>>
    /\ Len(sent) <= Len(emitted)
    /\ Len(emitted) <= Len(sent) + 1
    /\ sent = SubSeq(emitted, 1, Len(sent))
    /\ gen = "exhausted" => sent = emitted

C7Witness ==
    /\ gen = "exhausted"
    /\ cur.cam = Cameras[2]
    /\ Len(sent) = 2
    /\ sent[1] # sent[2]

\* C8: every command process yields is (idx, 1, 1) for the idx the mapper
\* returned for its observation, with one log line that names direction
\* "E" for a world angle 0; when the generator has ended it has yielded
\* one command and printed one line per observation.
C8Claim ==
    /\ curLog.n = Len(emitted)
    /\ \A k \in 1..Len(emitted) :
          emitted[k].signal_index = 1 /\ emitted[k].side = 1
    /\ Len(emitted) > 0 =>
          /\ emitted[Len(emitted)].actuator_index = mapped.idx
          /\ curLog.last.cam = cur.cam
          /\ mapped.world_angle = 0 => curLog.last.dir = "E"
    /\ gen \in {"exhausted", "raised"} =>
          (Len(emitted) = cur.n /\ curLog.n = cur.n)

\* C9 (as stated): unless a failure ended the loop, an event of a known
\* camera that the receive returned has had all its commands sent when
\* the loop is past the check of running that follows the receive.
C9Claim ==
    (/\ cur # NoEvent
     /\ cur.cam \in CamSet
     /\ ~exc
     /\ pc \in {"chk_stop", "while", "finally", "finally_stop", "done"})
       => Len(sent) = cur.n

\* C9 (amended): once the check after the receive has let the event
\* through to its binding, the loop leaves the dispatch only with every
\* command sent or with a failure.
C9Theorem ==
    Len(handed) > 0 =>
       \/ pc \in {"gen", "send"}
       \/ Len(sent) = cur.n /\ sent = emitted
       \/ exc

C9Witness ==
    /\ ~running
    /\ ~exc
    /\ pc = "while"
    /\ Len(handed) > 0
    /\ cur.n = MaxObs
    /\ Len(sent) = cur.n

\* C10: under every interleaving of external stop calls with run(), no
\* resource is closed more than once, and when run() has returned and
\* every stop call has ended without a failed close, running is false and
\* every owned resource has been closed.
C10Claim ==
    /\ AtMostOnce
    /\ (pc = "done" /\ AllIdle /\ extCalls >= 1 /\ ~closeFailed)
          => (~running /\ AllCloseAttempted)

\* C11: an iteration whose receive timed out sends no command, closes
\* nothing, leaves running as it is and goes back to the top of the loop;
\* and within an idle streak every receive is preceded by exactly one
\* render tick of its own iteration: k ticks for k receives.
C11Theorem ==
    [][/\ (pc = "route" /\ cur = NoEvent /\ pc' # pc) =>
             /\ pc' = "while"
             /\ UNCHANGED <<running, sent, emitted, log, closeCount,
                            camClose, sp, stopCalls>>
       /\ (pc' \in {"recv", "ui_stop"} /\ ticks' <= MaxIdle) =>
             ticks' = timeouts' + 1
       /\ (pc' \in {"chk", "route", "while", "ui", "key"}
             /\ ticks' <= MaxIdle) => ticks' = timeouts']_vars

C11Witness ==
    /\ pc = "while"
    /\ running
    /\ cur = NoEvent
    /\ timeouts = MaxIdle
    /\ ticks = MaxIdle
    /\ sent = <<>>
    /\ \A r \in DOMAIN closeCount : closeCount[r] = 0
    /\ \A c \in CamSet : camClose[c] = 0

\* the quit key has been polled
QuitSeen == key \in {"q", "Q"}

\* C12: the tick that polls the quit key calls stop() and draws nothing,
\* and once the quit key has been polled run() starts no render tick and
\* sends no command any more.
C12Theorem ==
    [][/\ (pc = "key" /\ pc' # pc /\ QuitSeen') =>
             /\ frame' = "cleared"
             /\ pc' = "ui_stop"
             /\ sp'["main"] = "check"
       /\ QuitSeen =>
             /\ UNCHANGED <<frame, key>>
             /\ sent' \in {sent, <<>>}
             /\ emitted' \in {emitted, <<>>}
             /\ pc' \notin {"ui", "key", "route", "gen", "send"}]_vars

C12Witness ==
    /\ key = "Q"
    /\ pc = "done"
    /\ frame = "cleared"
    /\ closeCount["screen"] = 1
    /\ lateRecv = 1

\* a statement of a render tick whose polled key is not the quit key
RenderStep ==
    \/ pc = "ui" /\ pc' # pc
    \/ pc = "key" /\ pc' # pc /\ ~QuitSeen'

\* C15: a render tick whose key is not the quit key changes the display
\* only: the running flag, the log, the DanceSource, the ActuatorLink, the
\* camera bindings and every close count are left as they were, and stop()
\* is not entered.
C15Theorem ==
    [][RenderStep =>
          UNCHANGED <<running, log, cur, nrecv, handed, emitted, mapped,
                      curLog, gen, msg, sent, closeCount, camClose,
                      closeFailed, hasStats, mapperCount, combCount, sp,
                      stopCalls>>]_vars

C15Witness ==
    /\ key = "other"
    /\ frame = "drawn"
    /\ pc = "recv"
    /\ running
    /\ Len(log) > 0
    /\ Len(sent) > 0
    /\ ticks = 1

\* the display is opened by a render tick only, from None, and closed by
\* stop() only, and only when it had been opened
LazyOpenOnce ==
    /\ (screen' # screen) =>
          \/ screen = "none" /\ screen' = "open" /\ pc = "ui"
          \/ screen = "open" /\ screen' = "closed"
                /\ \E t \in Threads : sp[t] = "screen"
    /\ (closeCount'["screen"] # closeCount["screen"]) => screen # "none"
    /\ (pc = "ui" /\ pc' = "key") => screen' # "none"
    /\ (ticks = 0 /\ timeouts = 0 /\ nrecv = 0 /\ pc \notin {"key", "ui_stop"})
          => screen = "none"

\* C14: the display is opened lazily and at most once, closed only if it
\* was opened, and no render tick clears or draws on it after its close.
C14Claim ==
    [][/\ LazyOpenOnce
       /\ (pc = "key" /\ pc' # pc) => screen = "open"]_vars

\* C16: once running is false, run() makes at most one more receive and
\* starts no render tick, and when it has returned with no close having
\* failed, every owned resource has been closed.
C16Claim ==
    [][/\ lateRecv' <= 1
       /\ (pc = "ui" /\ pc' # pc) => running
       /\ (pc' = "done" /\ AllIdle' /\ ~closeFailed') =>
             /\ ~running'
             /\ AllCloseAttempted'
             /\ screen' # "open"]_vars

\* C18: no receive is made on the DanceSource after its close.
C18Claim ==
    [][(pc = "recv" /\ pc' # pc) => closeCount["wdd"] = 0]_vars

\* C19: no command is sent to the ActuatorLink after its close.
C19Claim ==
    [][(pc = "send" /\ pc' # pc /\ Len(sent') > Len(sent)) =>
          closeCount["comb"] = 0]_vars

\* C13: every world angle gets exactly one label, at a table index in
\* 0..15; index k is chosen exactly for the angles that, brought into
\* [0, 360) degrees, lie in [k * 22.5, (k + 1) * 22.5); angle 0 is "E", and
\* the angle just below a full turn falls into the last bucket, the cyclic
\* neighbour of the first.
C13Theorem ==
    (fn.op = "direction" /\ fn.idx # NoIndex) =>
       /\ fn.idx \in 0..15
       /\ Cardinality({world_directions[i] : i \in 1..16}) = 16
       /\ fn.world_direction = world_directions[fn.idx + 1]
       /\ \E t \in (0 - MaxTurns)..MaxTurns :
            LET a == fn.world_angle + t * Circle
            IN  /\ a \in 0..(Circle - 1)
                /\ fn.idx * Circle <= a * 16
                /\ a * 16 < (fn.idx + 1) * Circle
       /\ fn.world_angle = 0 => fn.world_direction = "E"
       /\ fn.world_angle \in {-1, Circle - 1} => fn.idx = 15

C13Witness ==
    /\ fn.op = "direction"
    /\ fn.world_angle = -1
    /\ fn.idx = 15
    /\ fn.world_direction = "SEE"

\* the lines the claim of C17 expects in the panel
PanelLines ==
    LET N == fn.height - fn.cbottom
    IN  IF N <= 0 THEN 0 ELSE Min(N, Len(fn.log))

\* the panel holds the PanelLines most recent lines, oldest first, on
\* consecutive rows
RecentInOrder ==
    /\ Len(fn.printed) = PanelLines
    /\ \A j \in 1..Len(fn.printed) :
         /\ fn.printed[j].line = fn.log[Len(fn.log) - PanelLines + j]
         /\ j > 1 => fn.printed[j].row = fn.printed[j - 1].row + 1

\* C17: when the frame is flushed, the panel holds exactly the min(N,
\* len(log)) most recent lines in order, one per row, every row below the
\* outline and inside the display (rows 0 .. height - 1).
C17Claim ==
    (fn.op = "panel" /\ fn.at = "done") =>
       /\ RecentInOrder
       /\ \A j \in 1..Len(fn.printed) :
            /\ fn.printed[j].row > fn.cbottom
            /\ fn.printed[j].row < fn.height

\* C20: whatever the number of cameras, the markers of every camera with
\* an open dance get a colour of the palette: the lookup never fails.
C20Claim ==
    fn.op = "palette" =>
       /\ ~fn.IndexError
       /\ fn.idx > 0 => InPalette(fn.side_index)

====
